---- MODULE Spec2Model ----
(***************************************************************************)
(* Model of examples/fetch_all_states.py: the batch orchestrator that      *)
(* builds one task per state, runs the tasks sequentially or through a     *)
(* multiprocessing.Pool, fetches every listing type of a state with        *)
(* scrape_property, concatenates and truncates the results and exports the *)
(* mapped columns to <output_dir>/<state>_properties.<ext>.                *)
(***************************************************************************)
EXTENDS Integers, Sequences, FiniteSets, TLC

(***************************************************************************)
(* Bounds of the model.                                                    *)
(***************************************************************************)
\* largest --processes value tried; also the number of pool workers modelled
MaxProcesses == 2
\* most rows one scrape_property call returns
MaxFetchRows == 2

\* the state codes the --states lists draw from (two of US_STATES)
Regions == {"CA", "TX"}
\* the --states lists tried: one state, two states, the same state twice
\* (nargs='+' keeps duplicates)
StatesChoices == {<<"CA">>, <<"CA", "TX">>, <<"CA", "CA">>}
\* the --listing_types lists tried (nargs='+', entries of LISTING_TYPES)
ListingTypeChoices == {<<"sold">>, <<"for_sale", "sold">>}
\* the --max_rows values tried (type=int: negative values parse too)
MaxRowsChoices == {-1, 0, 2}
\* the --processes values tried (type=int; main() pools when it exceeds 1)
ProcessChoices == 0..MaxProcesses
\* the --output_format choices
OutputFormats == {"csv", "excel"}
\* the columns of a non-empty scrape_property result, by listing type: some
\* are keys of columns_map and some are not, in an order of their own
FrameColumns(listing_type) ==
    IF listing_type = "sold" THEN <<"property_url", "beds", "list_price">>
    ELSE <<"sqft", "property_url", "list_price">>

OUTPUT_DIR == "state_exports"

\* columns_map of main(), in declaration order (three of its entries)
columns_map == << <<"list_price", "Listing Price">>,
                  <<"beds", "Bedrooms">>,
                  <<"sqft", "Square Footage">> >>

(***************************************************************************)
(* Pure helpers.                                                           *)
(***************************************************************************)
Range(s) == {s[x] : x \in 1..Len(s)}

Min(a, b) == IF a < b THEN a ELSE b

Max(a, b) == IF a > b THEN a ELSE b

\* the target path of a task
Filename(state, output_format) ==
    <<OUTPUT_DIR, state, IF output_format = "excel" THEN "xlsx" ELSE "csv">>

AllPaths == {Filename(s, f) : s \in Regions, f \in OutputFormats}

NoFile == [exists |-> FALSE, cols |-> <<>>, rows |-> <<>>, complete |-> FALSE]

\* a file that was on disk before the run
OldFile == [exists |-> TRUE, cols |-> <<>>, rows |-> <<>>, complete |-> TRUE]

Raised == [kind |-> "raise", n |-> 0, cols |-> <<>>]

\* what a scrape_property call can do: raise, or return a frame of n rows,
\* whatever limit it was given
scrape_property(listing_type) ==
    {Raised, [kind |-> "data", n |-> 0, cols |-> <<>>]}
    \cup {[kind |-> "data", n |-> n, cols |-> FrameColumns(listing_type)] : n \in 1..MaxFetchRows}

\* the rows of the frame returned by the j-th call of a task
ChunkRows(chunk) == [r \in 1..chunk.n |-> <<chunk.j, r>>]

RECURSIVE ConcatRowsNewestFirst(_)
ConcatRowsNewestFirst(chunks) ==
    IF chunks = <<>> THEN <<>>
    ELSE ConcatRowsNewestFirst(Tail(chunks)) \o ChunkRows(Head(chunks))

\* rows of pd.concat(all_chunks, ignore_index=True)
RECURSIVE ConcatRows(_)
ConcatRows(chunks) ==
    IF chunks = <<>> THEN <<>>
    ELSE ChunkRows(Head(chunks)) \o ConcatRows(Tail(chunks))

\* columns of pd.concat: the union of the frames' columns, first seen first
RECURSIVE ConcatCols(_)
ConcatCols(chunks) ==
    IF chunks = <<>> THEN <<>>
    ELSE LET first == Head(chunks).cols
             rest == ConcatCols(Tail(chunks))
         IN first \o SelectSeq(rest, LAMBDA c : c \notin Range(first))

Head_nOffByOne(rows, n) ==
    IF n >= 0 THEN SubSeq(rows, 1, Min(n + 1, Len(rows)))
    ELSE SubSeq(rows, 1, Max(0, Len(rows) + n))

\* DataFrame.head(n): the first n rows, or all but the last -n when n < 0
Head_n(rows, n) ==
    IF n >= 0 THEN SubSeq(rows, 1, Min(n, Len(rows)))
    ELSE SubSeq(rows, 1, Max(0, Len(rows) + n))

\* pd.concat(all_chunks, ignore_index=True).head(max_rows)
df_state(all_chunks, max_rows) ==
    [cols |-> ConcatCols(all_chunks), rows |-> Head_n(ConcatRows(all_chunks), max_rows)]

available_colsFrameOrder(df) ==
    LET keys == [x \in 1..Len(columns_map) |-> columns_map[x][1]]
        kept == SelectSeq(df.cols, LAMBDA c : c \in Range(keys))
    IN [x \in 1..Len(kept) |->
           columns_map[CHOOSE y \in 1..Len(columns_map) : columns_map[y][1] = kept[x]]]

\* [col for col in columns_map.keys() if col in df_state.columns]
available_cols(df) ==
    SelectSeq(columns_map, LAMBDA kv : kv[1] \in Range(df.cols))

\* df_state[available_cols].rename(columns=...)
df_export(df) ==
    LET avail == available_cols(df)
    IN [cols |-> [x \in 1..Len(avail) |-> avail[x][2]], rows |-> df.rows]

ShouldSkipInverted(exists, overwrite) == exists /\ overwrite

\* os.path.exists(filename) and not overwrite
ShouldSkip(exists, overwrite) == exists /\ ~overwrite

\* Pool.map's chunk size for n tasks on a pool of the given size
ChunkSize(n, processes) ==
    LET q == n \div (4 * processes)
    IN IF n % (4 * processes) = 0 THEN q ELSE q + 1

\* the task indexes 1..n cut into consecutive chunks
RECURSIVE Chunks(_, _, _)
Chunks(from, n, size) ==
    IF from > n THEN <<>>
    ELSE << [x \in 1..(Min(from + size - 1, n) - from + 1) |-> from + x - 1] >>
         \o Chunks(from + size, n, size)

\* one line of fetch_all_states.log: level, message, state, the listing type or
\* file extension it names, and the row count it names
LogLine(level, msg, state, detail, count) ==
    [level |-> level, msg |-> msg, state |-> state, detail |-> detail, count |-> count]

(***************************************************************************)
(* State.                                                                  *)
(***************************************************************************)
VARIABLES
    args,       \* the parsed command line
    preexisting,\* the target paths on disk when the run began
    fs,         \* path -> file
    tasks,      \* the task list of main(): the state of each task tuple
    mainpc,     \* "build", "dispatch", "done" or "crashed"
    next,       \* sequential: index of the next task of the for loop
    taskqueue,  \* pooled: the chunks no worker has taken yet
    proc,       \* executor -> its position in process_state_cli
    status,     \* task -> PENDING, FETCHING, SKIPPED, NO_DATA, EXPORTED, FAILED
    calls,      \* task -> listing types passed to scrape_property, in order
    results,    \* task -> outcome of each of those calls
    existed,    \* task -> what os.path.exists(filename) told it: "?", "yes", "no"
    written,    \* task -> number of times it wrote to its target path
    exported,   \* task -> the frame it exported
    log         \* task -> the log lines it emitted

vars == <<args, preexisting, fs, tasks, mainpc, next, taskqueue, proc,
          status, existed, calls, results, written, exported, log>>

\* executor 0 is main()'s own for loop, 1.. are the pool's workers
Executors == 0..MaxProcesses

Idle == [task |-> 0, pc |-> "idle", k |-> 0, all_chunks |-> <<>>, chunk |-> <<>>]

Pooled == args.processes > 1

TaskIds == 1..Len(args.states)

Ended == {"SKIPPED", "NO_DATA", "EXPORTED", "FAILED"}

NoFrame == [any |-> FALSE, cols |-> <<>>, rows |-> <<>>]

Init ==
    /\ args \in [states : StatesChoices,
                 listing_types : ListingTypeChoices,
                 max_rows : MaxRowsChoices,
                 output_format : OutputFormats,
                 processes : ProcessChoices,
                 overwrite : BOOLEAN]
    /\ preexisting \in SUBSET {Filename(s, args.output_format) : s \in Range(args.states)}
    /\ fs = [p \in AllPaths |-> IF p \in preexisting THEN OldFile ELSE NoFile]
    /\ tasks = <<>>
    /\ mainpc = "build"
    /\ next = 1
    /\ taskqueue = <<>>
    /\ proc = [e \in Executors |-> Idle]
    /\ status = [i \in TaskIds |-> "PENDING"]
    /\ calls = [i \in TaskIds |-> <<>>]
    /\ results = [i \in TaskIds |-> <<>>]
    /\ existed = [i \in TaskIds |-> "?"]
    /\ written = [i \in TaskIds |-> 0]
    /\ exported = [i \in TaskIds |-> NoFrame]
    /\ log = [i \in TaskIds |-> <<>>]

(***************************************************************************)
(* main(): build the task list, then dispatch.                             *)
(***************************************************************************)
BuildTasks ==
    /\ mainpc = "build"
    /\ tasks' = [i \in 1..Len(args.states) |-> args.states[i]]
    /\ taskqueue' = IF Pooled
                    THEN Chunks(1, Len(args.states),
                                ChunkSize(Len(args.states), args.processes))
                    ELSE <<>>
    /\ mainpc' = "dispatch"
    /\ UNCHANGED <<args, preexisting, fs, next, proc, status, calls, results, written,
                   log, existed, exported>>

SeqDispatchLastFirst ==
    /\ mainpc = "dispatch"
    /\ ~Pooled
    /\ proc[0].pc = "idle"
    /\ next <= Len(tasks)
    /\ proc' = [proc EXCEPT ![0] = [Idle EXCEPT !.task = Len(tasks) - next + 1, !.pc = "check"]]
    /\ next' = next + 1
    /\ UNCHANGED <<args, preexisting, fs, tasks, mainpc, taskqueue, status, calls,
                   results, written, log, existed, exported>>

\* for t in tasks: process_state_cli(t)
SeqDispatch ==
    /\ mainpc = "dispatch"
    /\ ~Pooled
    /\ proc[0].pc = "idle"
    /\ next <= Len(tasks)
    /\ proc' = [proc EXCEPT ![0] = [Idle EXCEPT !.task = next, !.pc = "check"]]
    /\ next' = next + 1
    /\ UNCHANGED <<args, preexisting, fs, tasks, mainpc, taskqueue, status, calls,
                   results, written, log, existed, exported>>

\* a pool worker goes on with its chunk, or takes the next chunk of the queue
PoolDispatch(w) ==
    /\ mainpc = "dispatch"
    /\ Pooled
    /\ w \in 1..args.processes
    /\ proc[w].pc = "idle"
    \* the workers are interchangeable: a chunk of the queue goes to the
    \* first free one
    /\ proc[w].chunk = <<>> => \A v \in 1..(w - 1) : proc[v].pc # "idle"
    /\ IF proc[w].chunk # <<>>
       THEN /\ proc' = [proc EXCEPT ![w] = [Idle EXCEPT !.task = Head(proc[w].chunk),
                                                       !.pc = "check",
                                                       !.chunk = Tail(proc[w].chunk)]]
            /\ UNCHANGED taskqueue
       ELSE /\ taskqueue # <<>>
            /\ proc' = [proc EXCEPT ![w] = [Idle EXCEPT !.task = Head(Head(taskqueue)),
                                                       !.pc = "check",
                                                       !.chunk = Tail(Head(taskqueue))]]
            /\ taskqueue' = Tail(taskqueue)
    /\ UNCHANGED <<args, preexisting, fs, tasks, mainpc, next, status, calls, results,
                   written, log, existed, exported>>

(***************************************************************************)
(* process_state_cli.                                                      *)
(***************************************************************************)
FilenameOf(i) == Filename(tasks[i], args.output_format)

\* the target exists and overwrite is off: log the skip and return
SkipExisting(e) ==
    /\ proc[e].pc = "check"
    /\ LET i == proc[e].task
       IN /\ ShouldSkip(fs[FilenameOf(i)].exists, args.overwrite)
          /\ existed' = [existed EXCEPT ![i] = IF fs[FilenameOf(i)].exists THEN "yes" ELSE "no"]
          /\ status' = [status EXCEPT ![i] = "SKIPPED"]
          /\ log' = [log EXCEPT ![i] = Append(@, LogLine("INFO", "Skipping", tasks[i], FilenameOf(i)[3], 0))]
          /\ proc' = [proc EXCEPT ![e] = [Idle EXCEPT !.chunk = proc[e].chunk]]
    /\ UNCHANGED <<args, preexisting, fs, tasks, mainpc, next, taskqueue, calls,
                   results, written, exported>>

\* otherwise enter fetch_state_custom
BeginFetch(e) ==
    /\ proc[e].pc = "check"
    /\ LET i == proc[e].task
       IN /\ ~ShouldSkip(fs[FilenameOf(i)].exists, args.overwrite)
          /\ existed' = [existed EXCEPT ![i] = IF fs[FilenameOf(i)].exists THEN "yes" ELSE "no"]
          /\ status' = [status EXCEPT ![i] = "FETCHING"]
          /\ proc' = [proc EXCEPT ![e].pc = "fetch", ![e].k = 1, ![e].all_chunks = <<>>]
    /\ UNCHANGED <<args, preexisting, fs, tasks, mainpc, next, taskqueue, calls,
                   results, written, log, exported>>

(***************************************************************************)
(* fetch_state_custom: one scrape_property call per listing type.          *)
(***************************************************************************)
InLoop(e) ==
    /\ proc[e].pc = "fetch"
    /\ proc[e].k <= Len(args.listing_types)

LoopOver(e) ==
    /\ proc[e].pc = "fetch"
    /\ proc[e].k > Len(args.listing_types)

\* scrape_property returned a frame; a non-empty one is appended
FetchReturns(e) ==
    /\ InLoop(e)
    /\ LET i == proc[e].task
           k == proc[e].k
       IN \E o \in {x \in scrape_property(args.listing_types[k]) : x.kind = "data"} :
            /\ calls' = [calls EXCEPT ![i] = Append(@, args.listing_types[k])]
            /\ results' = [results EXCEPT ![i] = Append(@, o)]
            /\ proc' = [proc EXCEPT
                   ![e].k = k + 1,
                   ![e].all_chunks = IF o.n > 0
                                     THEN Append(@, [j |-> k, n |-> o.n, cols |-> o.cols])
                                     ELSE @]
    /\ UNCHANGED <<args, preexisting, fs, tasks, mainpc, next, taskqueue, status,
                   written, log, existed, exported>>

FetchRaisesEndsLoop(e) ==
    /\ InLoop(e)
    /\ LET i == proc[e].task
           k == proc[e].k
       IN /\ calls' = [calls EXCEPT ![i] = Append(@, args.listing_types[k])]
          /\ results' = [results EXCEPT ![i] = Append(@, Raised)]
          /\ log' = [log EXCEPT ![i] = Append(@, LogLine("ERROR", "Error fetching", tasks[i],
                                                         args.listing_types[k], 0))]
          /\ proc' = [proc EXCEPT ![e].k = Len(args.listing_types) + 1]
    /\ UNCHANGED <<args, preexisting, fs, tasks, mainpc, next, taskqueue, status,
                   written, existed, exported>>

\* scrape_property raised: the error is logged and the loop goes on
FetchRaises(e) ==
    /\ InLoop(e)
    /\ LET i == proc[e].task
           k == proc[e].k
       IN /\ calls' = [calls EXCEPT ![i] = Append(@, args.listing_types[k])]
          /\ results' = [results EXCEPT ![i] = Append(@, Raised)]
          /\ log' = [log EXCEPT ![i] = Append(@, LogLine("ERROR", "Error fetching", tasks[i],
                                                         args.listing_types[k], 0))]
          /\ proc' = [proc EXCEPT ![e].k = k + 1]
    /\ UNCHANGED <<args, preexisting, fs, tasks, mainpc, next, taskqueue, status,
                   written, existed, exported>>

HasDataAlways(all_chunks) == TRUE

\* if all_chunks:
HasData(all_chunks) == all_chunks # <<>>

(***************************************************************************)
(* process_state_cli after the fetch: export, or report no data.           *)
(***************************************************************************)
\* the task returned normally: the executor is free for its next task
Returned(e) == [Idle EXCEPT !.chunk = proc[e].chunk]

NoData(e) ==
    /\ LoopOver(e)
    /\ ~HasData(proc[e].all_chunks)
    /\ LET i == proc[e].task
       IN /\ status' = [status EXCEPT ![i] = "NO_DATA"]
          /\ log' = [log EXCEPT ![i] = Append(@, LogLine("INFO", "No data", tasks[i], "", 0))]
          /\ proc' = [proc EXCEPT ![e] = Returned(e)]
    /\ UNCHANGED <<args, preexisting, fs, tasks, mainpc, next, taskqueue, calls,
                   results, written, existed, exported>>

\* to_csv / to_excel succeeded
ExportWrite(e) ==
    /\ LoopOver(e)
    /\ HasData(proc[e].all_chunks)
    /\ LET i == proc[e].task
           out == df_export(df_state(proc[e].all_chunks, args.max_rows))
       IN /\ fs' = [fs EXCEPT ![FilenameOf(i)] =
                       [exists |-> TRUE, cols |-> out.cols, rows |-> out.rows, complete |-> TRUE]]
          /\ written' = [written EXCEPT ![i] = @ + 1]
          /\ exported' = [exported EXCEPT ![i] = [any |-> TRUE, cols |-> out.cols, rows |-> out.rows]]
          /\ status' = [status EXCEPT ![i] = "EXPORTED"]
          /\ log' = [log EXCEPT ![i] = Append(@, LogLine("INFO", "Saved", tasks[i],
                                                         FilenameOf(i)[3], Len(out.rows)))]
          /\ proc' = [proc EXCEPT ![e] = Returned(e)]
    /\ UNCHANGED <<args, preexisting, tasks, mainpc, next, taskqueue, calls, results,
                   existed>>

\* to_csv / to_excel raised, before or after it created the file; nothing
\* catches the exception: it ends main()'s for loop, or the rest of the
\* pool worker's chunk
WriteFails(e) ==
    /\ LoopOver(e)
    /\ HasData(proc[e].all_chunks)
    /\ LET i == proc[e].task
       IN /\ \/ UNCHANGED <<fs, written>>
             \/ /\ fs' = [fs EXCEPT ![FilenameOf(i)] =
                             [exists |-> TRUE, cols |-> <<>>, rows |-> <<>>, complete |-> FALSE]]
                /\ written' = [written EXCEPT ![i] = @ + 1]
          /\ status' = [status EXCEPT ![i] = "FAILED"]
    /\ proc' = [proc EXCEPT ![e] = Idle]
    /\ mainpc' = IF Pooled THEN mainpc ELSE "crashed"
    /\ UNCHANGED <<args, preexisting, tasks, next, taskqueue, calls, results, log,
                   existed, exported>>

(***************************************************************************)
(* main() after the dispatch.                                              *)
(***************************************************************************)
\* the for loop ran out of tasks: print("Done. ...")
SeqDone ==
    /\ mainpc = "dispatch"
    /\ ~Pooled
    /\ proc[0].pc = "idle"
    /\ next > Len(tasks)
    /\ mainpc' = "done"
    /\ UNCHANGED <<args, preexisting, fs, tasks, next, taskqueue, proc, status, calls,
                   results, written, log, existed, exported>>

\* pool.map returns once every chunk is done, and re-raises a task's exception
PoolJoin ==
    /\ mainpc = "dispatch"
    /\ Pooled
    /\ taskqueue = <<>>
    /\ \A w \in 1..args.processes : proc[w] = Idle
    /\ mainpc' = IF \E i \in TaskIds : status[i] = "FAILED" THEN "crashed" ELSE "done"
    /\ UNCHANGED <<args, preexisting, fs, tasks, next, taskqueue, proc, status, calls,
                   results, written, log, existed, exported>>

Next ==
    \/ BuildTasks
    \/ SeqDispatch
    \/ \E w \in Executors : PoolDispatch(w)
    \/ \E e \in Executors : SkipExisting(e)
    \/ \E e \in Executors : BeginFetch(e)
    \/ \E e \in Executors : FetchReturns(e)
    \/ \E e \in Executors : FetchRaises(e)
    \/ \E e \in Executors : NoData(e)
    \/ \E e \in Executors : ExportWrite(e)
    \/ \E e \in Executors : WriteFails(e)
    \/ SeqDone
    \/ PoolJoin

Spec == Init /\ [][Next]_vars

(***************************************************************************)
(* Vocabulary of the properties.                                           *)
(***************************************************************************)
\* task i is in the hands of an executor
Held(i) == \E e \in Executors : proc[e].task = i

\* task i has left the listing-type loop of fetch_state_custom
LoopExited(i) ==
    \/ status[i] \in {"NO_DATA", "EXPORTED", "FAILED"}
    \/ \E e \in Executors : proc[e].task = i /\ LoopOver(e)

SomeData(i) == \E j \in 1..Len(results[i]) : results[i][j].n > 0

AllRaised(i) ==
    /\ Len(results[i]) = Len(args.listing_types)
    /\ \A j \in 1..Len(results[i]) : results[i][j] = Raised

\* the tasks that wrote to a path
Writers(path) ==
    {i \in TaskIds : written[i] > 0 /\ Filename(args.states[i], args.output_format) = path}

\* a pending task that nothing will run any more
Lost(j) ==
    /\ status[j] = "PENDING"
    /\ mainpc # "build"
    /\ ~Held(j)
    /\ IF Pooled
       THEN /\ \A c \in 1..Len(taskqueue) : j \notin Range(taskqueue[c])
            /\ \A e \in Executors : j \notin Range(proc[e].chunk)
       ELSE mainpc \in {"done", "crashed"}

\* the rows the calls of task i returned, as a set of <<call, row>>
FetchedRows(i) ==
    {x \in (1..Len(results[i])) \X (1..MaxFetchRows) : x[2] <= results[i][x[1]].n}

\* row a comes before row b in the concatenation of the results
Before(a, b) == a[1] < b[1] \/ (a[1] = b[1] /\ a[2] < b[2])

\* the columns of the frames the calls of task i returned
FetchedColumns(i) == UNION {Range(results[i][j].cols) : j \in 1..Len(results[i])}

MapKeys == {columns_map[y][1] : y \in 1..Len(columns_map)}

MapIndexOfLabel(label) == CHOOSE y \in 1..Len(columns_map) : columns_map[y][2] = label

(***************************************************************************)
(* C1: a task that found its target path on disk, with overwrite off,      *)
(* calls scrape_property zero times, writes nothing and has ended as       *)
(* SKIPPED with the skip line as its only log line.                        *)
(***************************************************************************)
C1_SkipMakesNoFetch ==
    \A i \in TaskIds :
        (existed[i] = "yes" /\ ~args.overwrite) =>
            /\ status[i] = "SKIPPED"
            /\ ~Held(i)
            /\ calls[i] = <<>>
            /\ written[i] = 0
            /\ exported[i] = NoFrame
            /\ log[i] = <<LogLine("INFO", "Skipping", args.states[i],
                                  Filename(args.states[i], args.output_format)[3], 0)>>

C1_Witness ==
    \E i \in TaskIds :
        /\ existed[i] = "yes"
        /\ ~args.overwrite
        /\ status[i] = "SKIPPED"
        /\ mainpc = "done"

(***************************************************************************)
(* C2: with overwrite off, every target path is written at most once in    *)
(* the run, and a path that was on disk before the run is never written.   *)
(***************************************************************************)
C2_WrittenAtMostOnce ==
    ~args.overwrite =>
        \A path \in AllPaths :
            /\ Cardinality(Writers(path)) <= 1
            /\ path \in preexisting => Writers(path) = {}

(***************************************************************************)
(* C3: when main() has ended, every task of the list has been started and  *)
(* has run to its end, whatever happened in the other tasks.               *)
(***************************************************************************)
C3_EveryTaskRuns ==
    mainpc \in {"done", "crashed"} => \A i \in TaskIds : status[i] \in Ended

(***************************************************************************)
(* C4: the calls of a task are the listing types in list order, one call   *)
(* each: always a prefix of the list, one past which the loop stands, and  *)
(* the whole list once the loop is left, whatever the calls did.           *)
(***************************************************************************)
C4_OneCallPerListingType ==
    \A i \in TaskIds :
        /\ Len(calls[i]) <= Len(args.listing_types)
        /\ calls[i] = SubSeq(args.listing_types, 1, Len(calls[i]))
        /\ Len(results[i]) = Len(calls[i])
        /\ \A e \in Executors :
               (proc[e].task = i /\ proc[e].pc = "fetch") => proc[e].k = Len(calls[i]) + 1
        /\ LoopExited(i) => calls[i] = args.listing_types
        /\ \A j \in 1..Len(results[i]) :
               results[i][j] = Raised =>
                   \E x \in 1..Len(log[i]) :
                       log[i][x] = LogLine("ERROR", "Error fetching", args.states[i],
                                           args.listing_types[j], 0)

C4_Witness ==
    \E i \in TaskIds :
        /\ status[i] = "EXPORTED"
        /\ Len(args.listing_types) = 2
        /\ results[i][1] = Raised
        /\ results[i][2].n > 0
        /\ calls[i] = args.listing_types

(***************************************************************************)
(* C5: a task that has ended is SKIPPED, NO_DATA or EXPORTED and never     *)
(* failed: EXPORTED exactly when some listing type returned rows, NO_DATA  *)
(* exactly when none did, SKIPPED exactly when the target was on disk and  *)
(* overwrite was off.                                                      *)
(***************************************************************************)
C5_TerminalStates ==
    \A i \in TaskIds :
        (status[i] # "PENDING" /\ ~Held(i)) =>
            /\ status[i] \in {"SKIPPED", "NO_DATA", "EXPORTED"}
            /\ status[i] = "EXPORTED" <=> SomeData(i)
            /\ status[i] = "NO_DATA" <=> (existed[i] = "no" \/ args.overwrite) /\ ~SomeData(i)
            /\ status[i] = "SKIPPED" <=> (existed[i] = "yes" /\ ~args.overwrite)

(***************************************************************************)
(* C6: the columns a task exports are the labels of the columns_map keys   *)
(* found among the fetched columns, in columns_map order: every exported   *)
(* column is the label of a fetched key, every fetched key is exported,    *)
(* and the labels stand in the order columns_map declares them.            *)
(***************************************************************************)
C6_ExportedColumns ==
    \A i \in TaskIds :
        exported[i].any =>
            LET cols == exported[i].cols
            IN /\ \A x \in 1..Len(cols) :
                      \E y \in 1..Len(columns_map) :
                          /\ columns_map[y][2] = cols[x]
                          /\ columns_map[y][1] \in FetchedColumns(i)
               /\ \A y \in 1..Len(columns_map) :
                      columns_map[y][1] \in FetchedColumns(i) =>
                          \E x \in 1..Len(cols) : cols[x] = columns_map[y][2]
               /\ \A x1, x2 \in 1..Len(cols) :
                      x1 < x2 => MapIndexOfLabel(cols[x1]) < MapIndexOfLabel(cols[x2])

C6_Witness ==
    \E i \in TaskIds :
        /\ exported[i].any
        /\ "property_url" \in FetchedColumns(i)
        /\ "sqft" \notin FetchedColumns(i)
        /\ exported[i].cols = <<"Listing Price", "Bedrooms">>

C8_RowsArePrefix ==
    \A i \in TaskIds :
        exported[i].any =>
            LET rows == exported[i].rows
            IN /\ \A x \in 1..Len(rows) : rows[x] \in FetchedRows(i)
               /\ \A x1, x2 \in 1..Len(rows) : x1 < x2 => Before(rows[x1], rows[x2])
               /\ \A x \in 1..Len(rows) :
                      \A r \in FetchedRows(i) :
                          Before(r, rows[x]) => \E x0 \in 1..(x - 1) : rows[x0] = r

C8_Witness ==
    \E i \in TaskIds :
        /\ exported[i].any
        /\ exported[i].rows = << <<1, 1>>, <<2, 1>> >>
        /\ <<2, 2>> \in FetchedRows(i)

(***************************************************************************)
(* C9: a task all of whose calls raised writes nothing and exports         *)
(* nothing, ends as NO_DATA with the "No data" line as its last log line,  *)
(* and the task after it in the list is not lost.                          *)
(***************************************************************************)
C9_AllErrorsGiveNoData ==
    \A i \in TaskIds :
        AllRaised(i) =>
            /\ written[i] = 0
            /\ exported[i] = NoFrame
            /\ status[i] \in {"FETCHING", "NO_DATA"}
            /\ status[i] = "FETCHING" => Held(i)
            /\ status[i] = "NO_DATA" =>
                   /\ ~Held(i)
                   /\ log[i][Len(log[i])] = LogLine("INFO", "No data", args.states[i], "", 0)
            /\ (i + 1) \in TaskIds => ~Lost(i + 1)

C9_Witness ==
    \E i \in TaskIds :
        /\ AllRaised(i)
        /\ status[i] = "NO_DATA"
        /\ ~fs[Filename(args.states[i], args.output_format)].exists
        /\ (i + 1) \in TaskIds
        /\ status[i + 1] = "EXPORTED"

(***************************************************************************)
(* C10: when the process count is at most 1, the task list is the state    *)
(* list, entry by entry, only main()'s loop runs tasks, and a task is      *)
(* taken up only when every task before it in the list has ended.          *)
(***************************************************************************)
C10_SequentialInOrder ==
    args.processes <= 1 =>
        /\ mainpc # "build" => tasks = args.states
        /\ \A e \in Executors : e # 0 => proc[e] = Idle
        /\ \A i, j \in TaskIds :
               (i < j /\ (Held(j) \/ status[j] # "PENDING")) => (status[i] \in Ended /\ ~Held(i))

C10_Witness ==
    /\ args.processes <= 1
    /\ Len(args.states) = 2
    /\ mainpc = "done"
    /\ \A i \in TaskIds : status[i] \in Ended

====
